---- MODULE Spec2Model ----
(***************************************************************************)
(* Model of packages/apollo/src/commands/service/check.ts: the             *)
(* `service:check` command (ServiceCheck.run), the Markdown report         *)
(* (formatMarkdown) and the table row formatter (formatChange).            *)
(*                                                                         *)
(* Text is modelled structurally: a Markdown document is the sequence of   *)
(* its lines, a JSON document is the tree JSON.stringify writes, a table   *)
(* cell is its text together with the chalk colour applied to it.          *)
(***************************************************************************)
EXTENDS Integers, Sequences, FiniteSets, TLC

VARIABLES
    pc,                   \* position of run(): see PCs
    configName,           \* config.name (Null when no service is configured)
    flagsTag,             \* flags.tag (Null when --tag is not given)
    calls,                \* external collaborator calls issued so far, in order
    schema,               \* result of project.resolveSchema, Pending before
    gitContext,           \* ctx.gitContext, Pending before gitInfo returned
    validation,           \* outcome of validateHistoricParams
    checkSchemaResult,    \* ctx.checkSchemaResult as a set: {} before the call returned
    shouldOutputJson,     \* ctx.shouldOutputJson
    shouldOutputMarkdown, \* ctx.shouldOutputMarkdown
    utcShift,             \* seconds by which the UTC offsets of the two moments differ
    out,                  \* what the command has written (this.log and table), in order
    exitStatus,           \* process exit status, NoStatus while running or after a throw
    error                 \* the error that ended the run, Null if none

vars == <<pc, configName, flagsTag, calls, schema, gitContext, validation,
          checkSchemaResult, shouldOutputJson, shouldOutputMarkdown, utcShift,
          out, exitStatus, error>>

-----------------------------------------------------------------------------
(* Bounds of the model *)

MaxChanges == 2
MaxAffected == 1
MaxDays == 1

-----------------------------------------------------------------------------
(* Values *)

Null == "<null>"
Pending == "<pending>"
NoStatus == -1

SecondsPerDay == 86400

Severity == {"NOTICE", "WARNING", "FAILURE"}
Codes == {"FIELD_REMOVED"}
Descriptions == {"Query.user was removed"}

Change == [type : Severity, code : Codes, description : Descriptions]

RECURSIVE SeqsUpTo(_, _)
SeqsUpTo(S, n) ==
    IF n = 0 THEN {<<>>}
    ELSE LET shorter == SeqsUpTo(S, n - 1)
         IN  shorter \cup {Append(s, x) : s \in {t \in shorter : Len(t) = n - 1}, x \in S}

\* second offsets inside a day that sit on and next to the day boundaries
Remainders == {0, 1, SecondsPerDay - 1}
Spans == {d * SecondsPerDay + r : d \in 0..MaxDays, r \in Remainders}
Tos == {0, -3600}

\* validationConfig: from <= to <= 0, offsets in seconds from now
ValidationConfig == {[from |-> t - s, to |-> t] : s \in Spans, t \in Tos}

TargetUrls == {Null, "https://engine.example/check/1"}

\* affectedQueries is only ever measured; its elements are 1..n
AffectedQueries == {[i \in 1..n |-> i] : n \in 0..MaxAffected}

CheckSchemaResults ==
    [targetUrl : TargetUrls,
     diffToPrevious : [changes : SeqsUpTo(Change, MaxChanges),
                       validationConfig : ValidationConfig,
                       affectedQueries : AffectedQueries]]

UtcShifts == {-3600, 0, 3600}

ConfigTag == "current"
ServiceName == "my-service"

-----------------------------------------------------------------------------
(* formatChange *)

\* chalk.red / chalk.yellow / the identity: a cell is its text and its colour
chalk(colour, x) == [colour |-> colour, text |-> x]

\* formatChange colouring only the severity cell
formatChange_typeOnly(change) ==
    LET failure == IF change.type = "FAILURE" THEN "red" ELSE "none"
        color == IF change.type = "WARNING" THEN "yellow" ELSE failure
    IN  [type |-> chalk(color, change.type),
         code |-> chalk("none", change.code),
         description |-> chalk("none", change.description)]

formatChange(change) ==
    LET failure == IF change.type = "FAILURE" THEN "red" ELSE "none"
        color == IF change.type = "WARNING" THEN "yellow" ELSE failure
    IN  [type |-> chalk(color, change.type),
         code |-> chalk(color, change.code),
         description |-> chalk(color, change.description)]

-----------------------------------------------------------------------------
(* formatMarkdown *)

\* absFloor of moment: rounds towards zero
\* rounding away from zero instead
absFloor_awayFromZero(x) ==
    IF x < 0 THEN -(((-x) + SecondsPerDay - 1) \div SecondsPerDay)
    ELSE (x + SecondsPerDay - 1) \div SecondsPerDay

absFloor(x) == IF x < 0 THEN -((-x) \div SecondsPerDay) ELSE x \div SecondsPerDay

\* a.diff(b, "days") for a = now + from, b = now + to, in seconds; zoneDelta
\* is the difference between the UTC offsets of b and a
momentDiffDays(from, to, zoneDelta) == absFloor((from - to) - zoneDelta)

days(validationConfig, zoneDelta) ==
    -momentDiffDays(validationConfig.from, validationConfig.to, zoneDelta)

\* every change that is not a notice counted as breaking
breakingChanges_notNotice(changes) ==
    SelectSeq(changes, LAMBDA change : change.type /= "NOTICE")

breakingChanges(changes) == SelectSeq(changes, LAMBDA change : change.type = "FAILURE")

\* `${value}` of a string or null
TemplateString(value) == IF value = Null THEN "null" ELSE value

lastPeriod(d) == IF d = 1 THEN [unit |-> "day"] ELSE [n |-> d, unit |-> "days"]

breakingLine(result) ==
    IF Len(breakingChanges(result.diffToPrevious.changes)) > 0
    THEN [line |-> "breaking",
          count |-> Len(breakingChanges(result.diffToPrevious.changes)),
          operations |-> Len(result.diffToPrevious.affectedQueries)]
    ELSE [line |-> "no breaking changes"]

formatMarkdown(result, tag, serviceName, zoneDelta) ==
    << [line |-> "blank"],
       [line |-> "title"],
       [line |-> "validated", tag |-> tag, service |-> serviceName],
       [line |-> "compared",
        changes |-> Len(result.diffToPrevious.changes),
        period |-> lastPeriod(days(result.diffToPrevious.validationConfig, zoneDelta))],
       breakingLine(result),
       [line |-> "blank"],
       [line |-> "link", url |-> TemplateString(result.targetUrl)] >>

-----------------------------------------------------------------------------
(* JSON.stringify / JSON.parse on the values the command writes *)

JSONString(s) == [json |-> "string", chars |-> s]
JSONNumber(n) == [json |-> "number", digits |-> n]
JSONNull == [json |-> "null"]

\* a string-or-null value: null is written as the literal null
stringifyNullable(v) == IF v = Null THEN JSONNull ELSE JSONString(v)

\* an object is the sequence of its members, in property order
stringifyChange(change) ==
    [json |-> "object",
     members |-> << [key |-> "type", value |-> JSONString(change.type)],
                    [key |-> "code", value |-> JSONString(change.code)],
                    [key |-> "description", value |-> JSONString(change.description)] >>]

stringifyChanges(changes) ==
    [json |-> "array",
     items |-> [i \in 1..Len(changes) |-> stringifyChange(changes[i])]]

stringifyValidationConfig(validationConfig) ==
    [json |-> "object",
     members |-> << [key |-> "from", value |-> JSONNumber(validationConfig.from)],
                    [key |-> "to", value |-> JSONNumber(validationConfig.to)] >>]

\* the document with the blocking changes only
stringifyReport_failuresOnly(targetUrl, changes, validationConfig) ==
    [json |-> "object",
     members |-> << [key |-> "targetUrl", value |-> stringifyNullable(targetUrl)],
                    [key |-> "changes",
                     value |-> stringifyChanges(
                         SelectSeq(changes, LAMBDA change : change.type = "FAILURE"))],
                    [key |-> "validationConfig",
                     value |-> stringifyValidationConfig(validationConfig)] >>]

\* JSON.stringify({ targetUrl, changes, validationConfig }, null, 2)
stringifyReport(targetUrl, changes, validationConfig) ==
    [json |-> "object",
     members |-> << [key |-> "targetUrl", value |-> stringifyNullable(targetUrl)],
                    [key |-> "changes", value |-> stringifyChanges(changes)],
                    [key |-> "validationConfig",
                     value |-> stringifyValidationConfig(validationConfig)] >>]

\* JSON.parse, reading a member of an object by its key
Member(object, key) ==
    object.members[CHOOSE i \in 1..Len(object.members) : object.members[i].key = key].value
Keys(object) == [i \in 1..Len(object.members) |-> object.members[i].key]

parseScalar(value) ==
    CASE value.json = "null" -> Null
      [] value.json = "string" -> value.chars
      [] value.json = "number" -> value.digits

parseChange(object) ==
    [type |-> parseScalar(Member(object, "type")),
     code |-> parseScalar(Member(object, "code")),
     description |-> parseScalar(Member(object, "description"))]

parseChanges(array) == [i \in 1..Len(array.items) |-> parseChange(array.items[i])]

parseValidationConfig(object) ==
    [from |-> parseScalar(Member(object, "from")),
     to |-> parseScalar(Member(object, "to"))]

-----------------------------------------------------------------------------
(* validateHistoricParams (../../utils) *)

\* an optional value is the set of its values: {} when it is not given
RawPeriods == {{}, {[form |-> "seconds", seconds |-> 0]},
               {[form |-> "seconds", seconds |-> 60]},
               {[form |-> "duration", seconds |-> SecondsPerDay]},
               {[form |-> "other"]}}
RawThresholds == {{}, {1}}
RawPercentages == {{}, {0}, {1}}

Flags == [validationPeriod : RawPeriods,
          queryCountThreshold : RawThresholds,
          queryCountThresholdPercentage : RawPercentages]

Get(option) == CHOOSE x \in option : TRUE

PeriodIsValid(period) == period.form /= "other" /\ period.seconds > 0

\* percentage in [0, 0.05]
PercentageInRange(p) == p >= 0 /\ p * 100 <= 5

validateHistoricParams(flags) ==
    LET period == flags.validationPeriod
        threshold == flags.queryCountThreshold
        percentage == flags.queryCountThresholdPercentage
    IN  IF period = {} /\ threshold = {} /\ percentage = {}
        THEN [ok |-> TRUE, historicParameters |-> {}]
        ELSE IF period /= {} /\ ~PeriodIsValid(Get(period))
        THEN [ok |-> FALSE, error |-> "InvalidDuration"]
        ELSE IF threshold /= {} /\ percentage /= {}
        THEN [ok |-> FALSE, error |-> "ConflictingThresholds"]
        ELSE IF percentage /= {} /\ ~PercentageInRange(Get(percentage))
        THEN [ok |-> FALSE, error |-> "ThresholdOutOfRange"]
        ELSE [ok |-> TRUE,
              historicParameters |->
                  {[window |-> {[from |-> -Get(p).seconds, to |-> 0] : p \in {period} \ {{}}},
                    queryCountThreshold |-> threshold,
                    queryCountThresholdPercentage |-> percentage]}]

-----------------------------------------------------------------------------
(* ServiceCheck.run *)

PCs == {"start", "resolveSchema", "gitInfo", "checkSchema", "tasksDone", "done", "failed"}

FlagsTags == {Null, "staging"}
GitContexts == {Null, "commit 1a2b3c"}
Frontend == "engine-cli"

\* what this.exit() without a code makes the process exit with: the default
\* of the command framework, which the comment above the call expects to be
\* a failing status
ExitCodes == {0, 1}

\* a logged text is the sequence of its parts; NL is a line feed
NL == "<LF>"
LogText(text) == [log |-> "text", text |-> text]
LogJson(document) == [log |-> "json", document |-> document]
LogMarkdown(document) == [log |-> "markdown", document |-> document]
Table(rows) == [log |-> "table",
                columns |-> << [key |-> "type", label |-> "Change"],
                               [key |-> "code", label |-> "Code"],
                               [key |-> "description", label |-> "Description"] >>,
                rows |-> rows]

Throw(e) ==
    /\ pc' = "failed"
    /\ error' = e

Init ==
    /\ pc = "start"
    /\ configName \in {Null, ServiceName}
    /\ flagsTag \in FlagsTags
    /\ calls = <<>>
    /\ schema = Pending
    /\ gitContext = Pending
    /\ validation = "pending"
    /\ checkSchemaResult = {}
    /\ shouldOutputJson = FALSE
    /\ shouldOutputMarkdown = FALSE
    /\ utcShift = 0
    /\ out = <<>>
    /\ exitStatus = NoStatus
    /\ error = Null

\* the task without the service check
TaskStart_noServiceCheck ==
    /\ pc = "start"
    /\ calls' = Append(calls, [service |-> "resolveSchema",
                               tag |-> IF flagsTag /= Null THEN flagsTag ELSE ConfigTag])
    /\ pc' = "resolveSchema"
    /\ UNCHANGED <<configName, flagsTag, schema, gitContext, validation,
                   checkSchemaResult, shouldOutputJson, shouldOutputMarkdown,
                   utcShift, out, exitStatus, error>>

\* the task up to its first await: the service check, then project.resolveSchema
TaskStart ==
    /\ pc = "start"
    /\ IF configName = Null
       THEN /\ Throw("No service found to link to Engine")
            /\ UNCHANGED calls
       ELSE LET tag == IF flagsTag /= Null THEN flagsTag ELSE ConfigTag
            IN  /\ calls' = Append(calls, [service |-> "resolveSchema", tag |-> tag])
                /\ pc' = "resolveSchema"
                /\ UNCHANGED error
    /\ UNCHANGED <<configName, flagsTag, schema, gitContext, validation,
                   checkSchemaResult, shouldOutputJson, shouldOutputMarkdown,
                   utcShift, out, exitStatus>>

\* project.resolveSchema resolved: gitInfo is called
ResolveSchemaReturns ==
    /\ pc = "resolveSchema"
    /\ schema' = "schema"
    /\ calls' = Append(calls, [service |-> "gitInfo"])
    /\ pc' = "gitInfo"
    /\ UNCHANGED <<configName, flagsTag, gitContext, validation, checkSchemaResult,
                   shouldOutputJson, shouldOutputMarkdown, utcShift, out,
                   exitStatus, error>>

ResolveSchemaFails ==
    /\ pc = "resolveSchema"
    /\ Throw("resolveSchema failed")
    /\ UNCHANGED <<configName, flagsTag, calls, schema, gitContext, validation,
                   checkSchemaResult, shouldOutputJson, shouldOutputMarkdown,
                   utcShift, out, exitStatus>>

\* the check call issued whatever the validation says
GitInfoReturns_callAnyway ==
    /\ pc = "gitInfo"
    /\ \E context \in GitContexts, flags \in Flags :
          LET validated == validateHistoricParams(flags)
          IN  /\ gitContext' = context
              /\ validation' = IF validated.ok THEN "ok" ELSE "failed"
              /\ calls' = Append(calls,
                     [service |-> "checkSchema",
                      id |-> configName,
                      schema |-> schema,
                      tag |-> flagsTag,
                      gitContext |-> context,
                      frontend |-> Frontend,
                      historicParameters |->
                          IF validated.ok THEN validated.historicParameters ELSE {}])
              /\ pc' = "checkSchema"
    /\ UNCHANGED <<configName, flagsTag, schema, checkSchemaResult, shouldOutputJson,
                   shouldOutputMarkdown, utcShift, out, exitStatus, error>>

\* gitInfo resolved with some context: the historic parameters given by the
\* flags are validated and project.engine.checkSchema is called
GitInfoReturns ==
    /\ pc = "gitInfo"
    /\ \E context \in GitContexts, flags \in Flags :
          LET validated == validateHistoricParams(flags)
          IN  /\ gitContext' = context
              /\ IF ~validated.ok
                 THEN /\ validation' = "failed"
                      /\ Throw(validated.error)
                      /\ UNCHANGED calls
                 ELSE /\ validation' = "ok"
                      /\ calls' = Append(calls,
                             [service |-> "checkSchema",
                              id |-> configName,
                              schema |-> schema,
                              tag |-> flagsTag,
                              gitContext |-> context,
                              frontend |-> Frontend,
                              historicParameters |-> validated.historicParameters])
                      /\ pc' = "checkSchema"
                      /\ UNCHANGED error
    /\ UNCHANGED <<configName, flagsTag, schema, checkSchemaResult, shouldOutputJson,
                   shouldOutputMarkdown, utcShift, out, exitStatus>>

GitInfoFails ==
    /\ pc = "gitInfo"
    /\ Throw("gitInfo failed")
    /\ UNCHANGED <<configName, flagsTag, calls, schema, gitContext, validation,
                   checkSchemaResult, shouldOutputJson, shouldOutputMarkdown,
                   utcShift, out, exitStatus>>

\* project.engine.checkSchema resolved with some result: the task ends.
\* --json and --markdown exclude each other
CheckSchemaReturns ==
    /\ pc = "checkSchema"
    /\ \E result \in CheckSchemaResults, json \in BOOLEAN, markdown \in BOOLEAN :
          /\ ~(json /\ markdown)
          /\ checkSchemaResult' = {result}
          /\ shouldOutputJson' = json
          /\ shouldOutputMarkdown' = markdown
    /\ pc' = "tasksDone"
    /\ UNCHANGED <<configName, flagsTag, calls, schema, gitContext, validation,
                   utcShift, out, exitStatus, error>>

\* a failed check call reported as an empty diff
CheckSchemaFails_degraded ==
    /\ pc = "checkSchema"
    /\ Throw("checkSchema failed")
    /\ out' = << LogText(<<NL, "No changes present between schemas", NL>>) >>
    /\ UNCHANGED <<configName, flagsTag, calls, schema, gitContext, validation,
                   checkSchemaResult, shouldOutputJson, shouldOutputMarkdown,
                   utcShift, exitStatus>>

CheckSchemaFails ==
    /\ pc = "checkSchema"
    /\ Throw("checkSchema failed")
    /\ UNCHANGED <<configName, flagsTag, calls, schema, gitContext, validation,
                   checkSchemaResult, shouldOutputJson, shouldOutputMarkdown,
                   utcShift, out, exitStatus>>

failures(changes) == SelectSeq(changes, LAMBDA change : change.type = "FAILURE")

truthy(value) == value /= Null /\ value /= ""

\* the table written even when there is no change
tableOutput_noEarlyReturn(changes, targetUrl) ==
    << LogText(<<NL>>),
       Table([i \in 1..Len(changes) |-> formatChange(changes[i])]),
       LogText(<<NL>>) >>
    \o (IF truthy(targetUrl)
        THEN << LogText(<<"View full details at: ", targetUrl>>) >>
        ELSE <<>>)

\* what the command writes when neither --json nor --markdown is given
tableOutput(changes, targetUrl) ==
    IF Len(changes) = 0
    THEN << LogText(<<NL, "No changes present between schemas", NL>>) >>
    ELSE << LogText(<<NL>>),
            Table([i \in 1..Len(changes) |-> formatChange(changes[i])]),
            LogText(<<NL>>) >>
         \o (IF truthy(targetUrl)
             THEN << LogText(<<"View full details at: ", targetUrl>>) >>
             ELSE <<>>)

\* the statuses run() can end with when neither --json nor --markdown is given
tableExit(changes) ==
    IF Len(changes) /= 0 /\ Len(failures(changes)) > 0 THEN ExitCodes ELSE {0}

\* run() after the tasks
Report ==
    /\ pc = "tasksDone"
    /\ LET result == Get(checkSchemaResult)
           targetUrl == result.targetUrl
           changes == result.diffToPrevious.changes
           validationConfig == result.diffToPrevious.validationConfig
       IN  \/ /\ shouldOutputJson
              /\ out' = << LogJson(stringifyReport(targetUrl, changes, validationConfig)) >>
              /\ exitStatus' = 0
              /\ UNCHANGED utcShift
           \/ /\ ~shouldOutputJson
              /\ shouldOutputMarkdown
              /\ \E zoneDelta \in UtcShifts :
                    /\ zoneDelta /= 0 => validationConfig.from < validationConfig.to
                    /\ utcShift' = zoneDelta
                    /\ out' = << LogMarkdown(formatMarkdown(result, ConfigTag,
                                                            configName, zoneDelta)) >>
              /\ exitStatus' = 0
           \/ /\ ~shouldOutputJson
              /\ ~shouldOutputMarkdown
              /\ out' = tableOutput(changes, targetUrl)
              /\ exitStatus' \in tableExit(changes)
              /\ UNCHANGED utcShift
    /\ pc' = "done"
    /\ UNCHANGED <<configName, flagsTag, calls, schema, gitContext, validation,
                   checkSchemaResult, shouldOutputJson, shouldOutputMarkdown, error>>

Next ==
    \/ TaskStart
    \/ ResolveSchemaReturns
    \/ ResolveSchemaFails
    \/ GitInfoReturns
    \/ GitInfoFails
    \/ CheckSchemaReturns
    \/ CheckSchemaFails
    \/ Report

Spec == Init /\ [][Next]_vars

-----------------------------------------------------------------------------
(* Properties *)

Obtained == checkSchemaResult /= {}
Result == Get(checkSchemaResult)
Changes == Result.diffToPrevious.changes
Window == Result.diffToPrevious.validationConfig

CountType(changes, type) == Cardinality({i \in 1..Len(changes) : changes[i].type = type})

CheckIssued == \E i \in 1..Len(calls) : calls[i].service = "checkSchema"

JsonEmitted == pc = "done" /\ shouldOutputJson
MarkdownEmitted == pc = "done" /\ ~shouldOutputJson /\ shouldOutputMarkdown
TableMode == pc = "done" /\ ~shouldOutputJson /\ ~shouldOutputMarkdown

Document == out[1].document
Lines(kind) == {i \in 1..Len(Document) : Document[i].line = kind}
Items(kind) == {i \in 1..Len(out) : out[i].log = kind}

Rendered(d) == IF d = 1 THEN [unit |-> "day"] ELSE [n |-> d, unit |-> "days"]

\* C1: a run that obtained the result ends with a non-zero exit status if and
\* only if the result holds at least one FAILURE change, in every output mode.
C1_ExitNonZeroIffBreaking ==
    pc = "done" => ((exitStatus /= 0) <=> (CountType(Changes, "FAILURE") > 0))

\* C2: when the validation of the historic parameters fails the run aborts
\* and the check call is not issued; the check call is issued only after the
\* validation succeeded.
C2_NoCheckCallAfterFailedValidation ==
    /\ validation = "failed" => (pc = "failed" /\ error /= Null /\ ~CheckIssued)
    /\ CheckIssued => validation = "ok"

C2_Witness ==
    /\ validation = "failed"
    /\ pc = "failed"
    /\ gitContext /= Pending

\* C3: a run that fails with a fatal error writes no report of any mode; a
\* report is written only in runs where the check call returned a result.
C3_NoReportOnFatalError ==
    /\ (pc = "failed" \/ error /= Null) => out = <<>>
    /\ out /= <<>> => (Obtained /\ pc = "done")

C3_Witness ==
    /\ pc = "failed"
    /\ error = "checkSchema failed"
    /\ CheckIssued

\* C4 as stated: the Markdown report renders days = ceil(|to - from| / 86400),
\* never negative, as "day" when days = 1 and "<days> days" otherwise.
C4_DaysRoundedUp ==
    MarkdownEmitted =>
        LET span == Window.to - Window.from
            d == (span + SecondsPerDay - 1) \div SecondsPerDay
        IN  /\ d >= 0
            /\ \A i \in Lines("compared") : Document[i].period = Rendered(d)

\* C4 amended: the Markdown report renders the number of whole days in
\* |to - from|, rounded down, the span first shifted by the difference of the
\* UTC offsets of the two instants; it is never negative and is written "day"
\* when it is 1 and "<days> days" otherwise.
C4_DaysRoundedDown ==
    MarkdownEmitted =>
        LET shifted == (Window.to - Window.from) + utcShift
        IN  /\ Lines("compared") /= {}
            /\ \A i \in Lines("compared") :
                  \E d \in 0..(MaxDays + 1) :
                     /\ shifted >= 0 =>
                           (d * SecondsPerDay <= shifted /\ shifted < (d + 1) * SecondsPerDay)
                     /\ shifted < 0 => d = 0
                     /\ Document[i].period = Rendered(d)

C4_Witness ==
    /\ MarkdownEmitted
    /\ utcShift = 0
    /\ Window.to - Window.from = SecondsPerDay + 1
    /\ \E i \in Lines("compared") : Document[i].period = [unit |-> "day"]

\* C5: in the Markdown report the targetUrl link is the last element when the
\* result has a targetUrl, and the document has no link when it has none.
C5_LinkLastOrOmitted ==
    MarkdownEmitted =>
        /\ Result.targetUrl /= Null =>
              Document[Len(Document)] = [line |-> "link", url |-> Result.targetUrl]
        /\ Result.targetUrl = Null => Lines("link") = {}

\* C6: the Markdown report states the number of changes and exactly one of:
\* the "no breaking changes" statement when no change is a FAILURE, or the
\* number of FAILURE changes with the number of affected operations when
\* there is one; WARNING and NOTICE changes never select the latter.
C6_MarkdownBreakingStatement ==
    MarkdownEmitted =>
        LET n == CountType(Changes, "FAILURE")
        IN  /\ Cardinality(Lines("compared")) = 1
            /\ \A i \in Lines("compared") : Document[i].changes = Len(Changes)
            /\ Cardinality(Lines("breaking") \cup Lines("no breaking changes")) = 1
            /\ n = 0 <=> Lines("breaking") = {}
            /\ \A i \in Lines("breaking") :
                  /\ Document[i].count = n
                  /\ Document[i].operations = Len(Result.diffToPrevious.affectedQueries)

C6_Witness ==
    /\ MarkdownEmitted
    /\ CountType(Changes, "FAILURE") = 1
    /\ CountType(Changes, "WARNING") = 1
    /\ Lines("breaking") /= {}

\* C7: without --json and --markdown, an empty list of changes gives the one
\* "no changes present" message and no table row; a non-empty list gives one
\* row per change, in the order of the list.
C7_TableRows ==
    TableMode =>
        IF Len(Changes) = 0
        THEN /\ out = << LogText(<<NL, "No changes present between schemas", NL>>) >>
             /\ Items("table") = {}
        ELSE /\ Cardinality(Items("table")) = 1
             /\ \A i \in Items("text") :
                   out[i] /= LogText(<<NL, "No changes present between schemas", NL>>)
             /\ \A i \in Items("table") :
                   /\ Len(out[i].rows) = Len(Changes)
                   /\ \A k \in 1..Len(Changes) :
                         /\ out[i].rows[k].type.text = Changes[k].type
                         /\ out[i].rows[k].code.text = Changes[k].code
                         /\ out[i].rows[k].description.text = Changes[k].description

C7_Witness ==
    /\ TableMode
    /\ Changes = <<>>
    /\ Len(out) = 1

\* C8: the JSON document has exactly the three entries targetUrl, changes and
\* validationConfig, and reading it back gives the same targetUrl, the same
\* from and to, and every change in order with the same type, code and
\* description, unstyled.
C8_JsonRoundTrip ==
    JsonEmitted =>
        /\ Len(out) = 1
        /\ out[1].log = "json"
        /\ Keys(Document) = <<"targetUrl", "changes", "validationConfig">>
        /\ parseScalar(Member(Document, "targetUrl")) = Result.targetUrl
        /\ parseChanges(Member(Document, "changes")) = Changes
        /\ \A k \in 1..Len(Member(Document, "changes").items) :
              Keys(Member(Document, "changes").items[k]) = <<"type", "code", "description">>
        /\ parseValidationConfig(Member(Document, "validationConfig")) = Window

C8_Witness ==
    /\ JsonEmitted
    /\ Len(Changes) = MaxChanges
    /\ CountType(Changes, "FAILURE") < MaxChanges
    /\ Result.targetUrl = Null

ExpectedColour(type) ==
    CASE type = "FAILURE" -> "red"
      [] type = "WARNING" -> "yellow"
      [] type = "NOTICE" -> "none"

RowsTagged ==
    TableMode =>
        \A i \in Items("table") :
            \A k \in 1..Len(out[i].rows) :
                LET row == out[i].rows[k]
                    colour == ExpectedColour(Changes[k].type)
                IN  /\ row.type = [colour |-> colour, text |-> Changes[k].type]
                    /\ row.code = [colour |-> colour, text |-> Changes[k].code]
                    /\ row.description = [colour |-> colour, text |-> Changes[k].description]

\* C9: formatChange gives the three cells of a row the same emphasis, chosen
\* by the severity alone: red for FAILURE, yellow for WARNING, none for NOTICE
\* whose texts are unchanged; the change itself is not modified.
C9_RowEmphasis ==
    /\ []RowsTagged
    /\ [][pc = "tasksDone" => checkSchemaResult' = checkSchemaResult]_vars

C9_Witness ==
    /\ TableMode
    /\ CountType(Changes, "WARNING") = 1
    /\ CountType(Changes, "NOTICE") = 1
    /\ Items("table") /= {}

\* C10: the check call is issued at most once, and only after the service
\* check passed and both resolveSchema and gitInfo completed; without a
\* service the run fails before any collaborator is called.
C10_CheckCallOnceAfterPrerequisites ==
    /\ Cardinality({i \in 1..Len(calls) : calls[i].service = "checkSchema"}) <= 1
    /\ \A i \in 1..Len(calls) :
          calls[i].service = "checkSchema" =>
              /\ configName /= Null
              /\ schema /= Pending
              /\ gitContext /= Pending
              /\ \E j \in 1..(i - 1) : calls[j].service = "resolveSchema"
              /\ \E j \in 1..(i - 1) : calls[j].service = "gitInfo"
    /\ configName = Null => (calls = <<>> /\ pc \in {"start", "failed"})

C10_Witness ==
    /\ pc = "tasksDone"
    /\ CheckIssued
    /\ Len(calls) = 3

====
